---- MODULE Spec2Model ----
(***************************************************************************)
(* MyLocalBarista: the two page controllers.                               *)
(*   CustomizationController (src/js/customization.js): theme switching by *)
(*     load-then-swap of <link id="style-theme"> elements, live style      *)
(*     variables.                                                          *)
(*   WaitlistFormHandler (src/js/form-handler.js): validation, the         *)
(*     single-flight submission and the localStorage fallback log.         *)
(* The controllers share no state; each has specifications of its own over *)
(* the one set of variables: SpecTheme for the customization panel; Spec,  *)
(* SpecLive and SpecOutcome for the submission; SpecField, SpecValidate    *)
(* and SpecCollect for the fields, validateField and collectFormData.      *)
(***************************************************************************)
EXTENDS Integers, Sequences, FiniteSets, TLC

VARIABLES
    \* ---- CustomizationController ----
    doc,            \* ids of the <link id="style-theme"> elements, in document order
    links,          \* every theme link ever created: id -> [theme, status, old, ...]
    currentTheme,   \* this.currentTheme
    transitioning,  \* document.body has class 'theme-transitioning'
    timers,         \* pending setTimeout callbacks that remove that class
    cssVar,         \* inline style properties of document.documentElement
    slider,         \* value of #roundedness-slider
    sliderText,     \* textContent of .slider-value
    nSwitch,        \* switchTheme calls made so far
    themeSelector,  \* value of #theme-selector
    picker,         \* value of each color input
    colorText,      \* textContent of each .color-value
    isOpen,         \* this.isOpen
    panelClass,     \* the classes openPanel and closePanel toggle
    focusTimers,    \* pending setTimeout callbacks that focus an element, oldest first
    lastStyle,      \* the last customization event that ran
    \* ---- WaitlistFormHandler ----
    fields,         \* value of each tracked form control
    radio,          \* value of the checked espresso_machine radio, "" when none
    fieldError,     \* the messages of the .field-error elements in each field's form group
    generalError,   \* the messages of the form's .general-error elements, in document order
    isSubmitting,   \* this.isSubmitting
    btnDisabled,    \* this.submitBtn.disabled
    pc,             \* where the one handleSubmit in flight stands
    flight,         \* the formData and the fetch outcome of the submission in flight
    storage,        \* localStorage item 'mylocalbarista_waitlist'
    acks,           \* what each accepted submission showed: "none", "success", "error"
    nAccepted,      \* submit events that passed the busy guard and validation
    nAttempts,      \* fetch calls made
    nStoreCalls,    \* storeFormDataLocally calls made
    nAdded,         \* entries those calls added to the stored log
    droppedBusy,    \* some submit event was dropped by the busy guard
    focus           \* the control holding keyboard focus, "none" when no tracked one

themeVars == <<doc, links, currentTheme, transitioning, timers, nSwitch>>
styleVars == <<cssVar, slider, sliderText, picker, colorText>>
panelVars == <<isOpen, panelClass, focusTimers>>
custVars  == <<doc, links, currentTheme, transitioning, timers, nSwitch,
               cssVar, slider, sliderText, picker, colorText, lastStyle,
               themeSelector, isOpen, panelClass, focusTimers>>
formVars  == <<fields, radio, fieldError, generalError, isSubmitting, btnDisabled,
               pc, flight, storage, acks, nAccepted, nAttempts, nStoreCalls,
               nAdded, droppedBusy, focus>>
vars      == <<custVars, formVars>>

\* the form's variables other than the keyboard focus
formVarsNoFocus == <<fields, radio, fieldError, generalError, isSubmitting, btnDisabled,
                     pc, flight, storage, acks, nAccepted, nAttempts, nStoreCalls,
                     nAdded, droppedBusy>>

(***************************************************************************)
(* Bounds of the model.                                                    *)
(***************************************************************************)
MaxSwitches == 3      \* switchTheme calls in one run
MaxSubmits  == 2      \* accepted submissions in one run
MaxPanelTimers == 3   \* focus callbacks pending at one time

(***************************************************************************)
(* CustomizationController: theme switching                                *)
(***************************************************************************)
Themes == {"classic", "modern", "warm"}

\* what the theme selector's change event may carry (an empty value is falsy)
ThemeInputs == Themes \cup {""}

\* Array.prototype-free helper: the sequence s without the element x
Without(s, x) == SelectSeq(s, LAMBDA y : y # x)

InSeq(s, x) == \E i \in 1..Len(s) : s[i] = x
InDoc(l) == InSeq(doc, l)

\* document.getElementById('style-theme'): the first such element in
\* document order, 0 (null) when there is none
CurrentThemeLink == IF doc = <<>> THEN 0 ELSE Head(doc)

\* switchTheme's early returns
IsNoopSwitchNoSameCheck(t) == t = "" \/ CurrentThemeLink = 0
IsNoopSwitch(t) == t = "" \/ t = currentTheme \/ CurrentThemeLink = 0

\* currentThemeLink.parentNode.insertBefore(newThemeLink, currentThemeLink.nextSibling)
\* (currentThemeLink is the first element of doc)
DocAfterInsertEager(cur, new) == <<new>> \o Tail(doc)
DocAfterInsert(cur, new) == <<cur, new>> \o Tail(doc)

Loading(l) == l \in 1..Len(links) /\ links[l].status = "loading"
NoPendingLoad == \A l \in 1..Len(links) : links[l].status # "loading"

\* onload: currentThemeLink.remove()  (a no-op when it is already detached)
DocAfterLoad(l) == Without(doc, links[l].old)

\* onload: this.currentTheme = newTheme
ThemeAfterLoad(l) == links[l].theme

\* onerror: newThemeLink.remove()
DocAfterErrorDropOld(l) == Without(doc, links[l].old)
DocAfterError(l) == Without(doc, l)

\* onerror leaves this.currentTheme alone
ThemeAfterError(l) == currentTheme

SwitchThemeCall(t) ==
    /\ nSwitch < MaxSwitches
    /\ nSwitch' = nSwitch + 1
    /\ IF IsNoopSwitch(t)
         THEN /\ UNCHANGED <<doc, links, currentTheme, transitioning, timers>>
              /\ lastStyle' = [op |-> "switchTheme", arg |-> t, link |-> 0, threw |-> FALSE]
         ELSE LET cur == CurrentThemeLink
                  new == Len(links) + 1
              IN  /\ links' = Append(
                        [l \in 1..Len(links) |-> [links[l] EXCEPT !.alone = FALSE]],
                        [theme |-> t, status |-> "loading", old |-> cur,
                         prevTheme |-> currentTheme, alone |-> NoPendingLoad])
                  /\ doc' = DocAfterInsert(cur, new)
                  /\ transitioning' = TRUE
                  /\ lastStyle' = [op |-> "switchTheme", arg |-> t, link |-> new, threw |-> FALSE]
                  /\ UNCHANGED <<currentTheme, timers>>
    /\ UNCHANGED <<styleVars, panelVars, formVars>>

\* switchTheme(t) called on the controller
SwitchTheme(t) == SwitchThemeCall(t) /\ UNCHANGED themeSelector

\* the change event of the theme selector, fired when the user picks a
\* value other than the one it holds: switchTheme(e.target.value)
SelectTheme(t) ==
    /\ t # themeSelector
    /\ themeSelector' = t
    /\ SwitchThemeCall(t)

\* newThemeLink.onload
LoadSuccess(l) ==
    /\ Loading(l)
    /\ doc' = DocAfterLoad(l)
    /\ currentTheme' = ThemeAfterLoad(l)
    /\ links' = [links EXCEPT ![l].status = "loaded"]
    /\ timers' = timers + 1
    /\ lastStyle' = [op |-> "onload", arg |-> links[l].theme, link |-> l, threw |-> FALSE]
    /\ UNCHANGED <<transitioning, nSwitch, styleVars, panelVars, themeSelector, formVars>>

\* newThemeLink.onerror
LoadError(l) ==
    /\ Loading(l)
    /\ doc' = DocAfterError(l)
    /\ currentTheme' = ThemeAfterError(l)
    /\ transitioning' = FALSE
    /\ links' = [links EXCEPT ![l].status = "failed"]
    /\ lastStyle' = [op |-> "onerror", arg |-> links[l].theme, link |-> l, threw |-> FALSE]
    /\ UNCHANGED <<timers, nSwitch, styleVars, panelVars, themeSelector, formVars>>

\* A link that another switch's onload removed while it was still loading:
\* the browser may drop the fetch, and then neither handler ever runs.
LoadAbandoned(l) ==
    /\ Loading(l)
    /\ ~InDoc(l)
    /\ links' = [links EXCEPT ![l].status = "abandoned"]
    /\ lastStyle' = [op |-> "abandoned", arg |-> links[l].theme, link |-> l, threw |-> FALSE]
    /\ UNCHANGED <<doc, currentTheme, transitioning, timers, nSwitch, styleVars, panelVars,
                   themeSelector, formVars>>

\* the setTimeout(..., 300) callback of onload
TransitionTimer ==
    /\ timers > 0
    /\ timers' = timers - 1
    /\ transitioning' = FALSE
    /\ lastStyle' = [op |-> "timer", arg |-> "", link |-> 0, threw |-> FALSE]
    /\ UNCHANGED <<doc, links, currentTheme, nSwitch, styleVars, panelVars, themeSelector,
                   formVars>>

(***************************************************************************)
(* WaitlistFormHandler: strings                                            *)
(***************************************************************************)
CharAt(s, i) == SubSeq(s, i, i)

Whitespace == {" ", "\t", "\n", "\r"}
Digits == {"0", "1", "2", "3", "4", "5", "6", "7", "8", "9"}

RECURSIVE TrimStart(_)
TrimStart(s) ==
    IF Len(s) > 0 /\ CharAt(s, 1) \in Whitespace
      THEN TrimStart(SubSeq(s, 2, Len(s)))
      ELSE s

RECURSIVE TrimEnd(_)
TrimEnd(s) ==
    IF Len(s) > 0 /\ CharAt(s, Len(s)) \in Whitespace
      THEN TrimEnd(SubSeq(s, 1, Len(s) - 1))
      ELSE s

\* String.prototype.trim
TrimNothing(s) == s
Trim(s) == TrimEnd(TrimStart(s))

\* /^[^\s@]+@[^\s@]+\.[^\s@]+$/ : one '@', no whitespace, something before
\* the '@', and after it a '.' with something on both sides
IsValidEmailNoDot(email) ==
    \E at \in 2..(Len(email) - 1) :
        /\ CharAt(email, at) = "@"
        /\ \A i \in 1..Len(email) :
              /\ CharAt(email, i) \notin Whitespace
              /\ i # at => CharAt(email, i) # "@"
IsValidEmail(email) ==
    \E at \in 2..Len(email) :
        /\ CharAt(email, at) = "@"
        /\ \A i \in 1..Len(email) :
              /\ CharAt(email, i) \notin Whitespace
              /\ i # at => CharAt(email, i) # "@"
        /\ \E dot \in (at + 2)..(Len(email) - 1) : CharAt(email, dot) = "."

\* /^\d{5}$/
IsValidZipCodeUnanchored(zip) ==
    /\ Len(zip) >= 5
    /\ \A i \in 1..5 : CharAt(zip, i) \in Digits
IsValidZipCode(zip) ==
    /\ Len(zip) = 5
    /\ \A i \in 1..Len(zip) : CharAt(zip, i) \in Digits

(***************************************************************************)
(* CustomizationController: the panel                                      *)
(***************************************************************************)
\* the elements openPanel and closePanel focus
OpenFocusTargetOpener == "openBtn"
OpenFocusTarget == "firstControl"
CloseFocusTarget == "openBtn"

\* where the user may put keyboard focus: the two elements above, another
\* control of the panel, or the page outside it
PanelFocusTargets == {"openBtn", "firstControl", "picker", "none"}

\* openPanel()
OpenPanel ==
    /\ Len(focusTimers) < MaxPanelTimers
    /\ panelClass' = [panel |-> TRUE, main |-> TRUE, btn |-> TRUE]
    /\ isOpen' = TRUE
    /\ focusTimers' = Append(focusTimers, OpenFocusTarget)
    /\ lastStyle' = [op |-> "openPanel", arg |-> "", link |-> 0, threw |-> FALSE]
    /\ UNCHANGED <<themeVars, styleVars, themeSelector, formVars>>

\* closePanel()
ClosePanel ==
    /\ Len(focusTimers) < MaxPanelTimers
    /\ panelClass' = [panel |-> FALSE, main |-> FALSE, btn |-> FALSE]
    /\ isOpen' = FALSE
    /\ focusTimers' = Append(focusTimers, CloseFocusTarget)
    /\ lastStyle' = [op |-> "closePanel", arg |-> "", link |-> 0, threw |-> FALSE]
    /\ UNCHANGED <<themeVars, styleVars, themeSelector, formVars>>

\* the element is not shown: the open button while it has class 'hidden',
\* a control of the panel while the panel lacks class 'open'
HiddenTarget(t) ==
    \/ t = "openBtn" /\ panelClass.btn
    \/ t \in {"firstControl", "picker"} /\ ~panelClass.panel

\* The oldest setTimeout(..., 300) callback runs: element.focus(). Callbacks
\* of equal delay run in the order they were set. focus() on an element
\* that is not shown may do nothing, as the stylesheet decides.
FocusTimerFires(moves) ==
    /\ focusTimers # <<>>
    /\ moves \/ HiddenTarget(Head(focusTimers))
    /\ focus' = IF moves THEN Head(focusTimers) ELSE focus
    /\ focusTimers' = Tail(focusTimers)
    /\ lastStyle' = [op |-> "focusTimer", arg |-> Head(focusTimers), link |-> 0, threw |-> FALSE]
    /\ UNCHANGED <<themeVars, styleVars, themeSelector, isOpen, panelClass, formVarsNoFocus>>

\* the user moves keyboard focus to an element that is shown
UserFocus(g) ==
    /\ g # focus
    /\ ~HiddenTarget(g)
    /\ focus' = g
    /\ lastStyle' = [op |-> "userFocus", arg |-> g, link |-> 0, threw |-> FALSE]
    /\ UNCHANGED <<themeVars, styleVars, themeSelector, panelVars, formVarsNoFocus>>

(***************************************************************************)
(* CustomizationController: colors                                         *)
(***************************************************************************)
\* the style properties the panel writes on document.documentElement
RadiusVar == "--border-radius-base"
ColorNames == {"primary", "secondary", "accent"}
ColorVar(c) == "--" \o c \o "-color"
StyleVarNames == {RadiusVar} \cup {ColorVar(c) : c \in ColorNames}

LowerCaseLetters == "abcdefghijklmnopqrstuvwxyz"
UpperCaseLetters == "ABCDEFGHIJKLMNOPQRSTUVWXYZ"
HexDigits == Digits \cup {"a", "b", "c", "d", "e", "f", "A", "B", "C", "D", "E", "F"}

\* the letters of `from` mapped to the letters of `to` at the same place
CaseMap(from, to) ==
    [c \in {CharAt(from, i) : i \in 1..Len(from)} |->
        CharAt(to, CHOOSE i \in 1..Len(from) : CharAt(from, i) = c)]

UpperCaseMap == CaseMap(LowerCaseLetters, UpperCaseLetters)
LowerCaseMap == CaseMap(UpperCaseLetters, LowerCaseLetters)

\* the character c has in map, c itself when it has none
MapChar(c, map) == IF c \in DOMAIN map THEN map[c] ELSE c

RECURSIVE MapString(_, _)
MapString(str, map) ==
    IF str = "" THEN ""
    ELSE MapChar(CharAt(str, 1), map) \o MapString(SubSeq(str, 2, Len(str)), map)

\* String.prototype.toUpperCase
ToUpperCaseNothing(str) == str
ToUpperCase(str) == MapString(str, UpperCaseMap)

ToLowerCase(str) == MapString(str, LowerCaseMap)

\* a valid simple color: '#' and six hexadecimal digits
IsSimpleColor(v) ==
    /\ Len(v) = 7
    /\ CharAt(v, 1) = "#"
    /\ \A i \in 2..7 : CharAt(v, i) \in HexDigits

\* what a color input holds after `picker.value = v`: the browser keeps a
\* valid simple color in lowercase and replaces anything else by black
SanitizeColor(v) == IF IsSimpleColor(v) THEN ToLowerCase(v) ELSE "#000000"

\* hexToColor(hex)
hexToColor(hex) ==
    IF hex = "" THEN "#000000"
    ELSE IF CharAt(hex, 1) # "#" THEN "#" \o hex ELSE hex

\* the colors variables.css gives the page
StylesheetColor(c) ==
    CASE c = "primary"   -> "#8B4513"
      [] c = "secondary" -> "#D2691E"
      [] OTHER           -> "#F4E4C1"

\* the setter of color c
SetterName(c) ==
    CASE c = "primary"   -> "updatePrimaryColor"
      [] c = "secondary" -> "updateSecondaryColor"
      [] OTHER           -> "updateAccentColor"

\* updateCSSVariable(ColorVar(c), color)
CssAfterColor(css, c, color) == [css EXCEPT ![ColorVar(c)] = color]

\* updateColorDisplay(picker, color)
TextAfterColor(text, c, color) == [text EXCEPT ![c] = ToUpperCase(color)]

\* updateDisplayValues(): every displayed color from its picker
TextFromPickers(pk) == [c \in ColorNames |-> ToUpperCase(pk[c])]

\* updatePrimaryColor(color), updateSecondaryColor(color) or
\* updateAccentColor(color) called on the controller
UpdateColorCall(c, color) ==
    /\ cssVar' = CssAfterColor(cssVar, c, color)
    /\ colorText' = TextAfterColor(colorText, c, color)
    /\ lastStyle' = [op |-> SetterName(c), arg |-> color, link |-> 0, threw |-> FALSE]
    /\ UNCHANGED <<themeVars, slider, sliderText, picker, panelVars, themeSelector, formVars>>

\* the input event of a color picker holding v: the setter with e.target.value
PickColor(c, v) ==
    /\ picker[c] # v
    /\ picker' = [picker EXCEPT ![c] = v]
    /\ cssVar' = CssAfterColor(cssVar, c, v)
    /\ colorText' = TextAfterColor(colorText, c, v)
    /\ lastStyle' = [op |-> "input", arg |-> c, link |-> 0, threw |-> FALSE]
    /\ UNCHANGED <<themeVars, slider, sliderText, panelVars, themeSelector, formVars>>

(***************************************************************************)
(* CustomizationController: roundedness                                    *)
(***************************************************************************)

\* values the slider's input event may carry
RoundednessInputs == {"0", "8", "30"}

\* updateRoundedness(value): the style properties and the displayed radius
RoundednessTextBare(value) == value
RoundednessText(value) == value \o "px"

\* the input event of the roundedness slider: updateRoundedness(e.target.value)
UpdateRoundedness(value) ==
    LET roundnessValue == RoundednessText(value)
    IN  /\ cssVar' = [cssVar EXCEPT ![RadiusVar] = roundnessValue]
        /\ sliderText' = roundnessValue
        /\ slider' = value
        /\ lastStyle' = [op |-> "updateRoundedness", arg |-> value, link |-> 0, threw |-> FALSE]
        /\ UNCHANGED <<themeVars, picker, colorText, panelVars, themeSelector, formVars>>

\* the range of the slider
MaxRoundedness == 30

(***************************************************************************)
(* CustomizationController: presets and setColors                          *)
(***************************************************************************)
\* names every object literal answers to: members of Object.prototype
ObjectPrototypeKeys ==
    {"constructor", "toString", "valueOf", "hasOwnProperty", "__proto__"}

PresetNames == {"coffee", "modern", "earthy", "luxe"}

\* the presets table of applyPreset
Presets(presetName) ==
    CASE presetName = "coffee" -> [primary |-> "#8B4513", secondary |-> "#D2691E", accent |-> "#F4E4C1"]
      [] presetName = "modern" -> [primary |-> "#3B82F6", secondary |-> "#10B981", accent |-> "#F3F4F6"]
      [] presetName = "earthy" -> [primary |-> "#059669", secondary |-> "#84CC16", accent |-> "#ECFDF5"]
      [] OTHER                 -> [primary |-> "#D97706", secondary |-> "#F59E0B", accent |-> "#FEF3C7"]

\* a value written where a string is expected when the value is undefined
Undefined == "undefined"

\* applyPreset(presetName). The table is an object literal: presets[presetName]
\* is the preset for the four names, a truthy member of Object.prototype for
\* the names every object inherits, and undefined for any other name. An
\* inherited member has no primary: updatePrimaryColor(undefined) sets the
\* property to the string 'undefined' and undefined.toUpperCase() throws.
\* (The 150 ms scale of the pressed button is presentation and left out.)
ApplyPreset(presetName) ==
    /\ IF presetName \in PresetNames
         THEN LET preset == Presets(presetName)
                  css1 == CssAfterColor(cssVar, "primary", preset.primary)
                  css2 == CssAfterColor(css1, "secondary", preset.secondary)
                  css3 == CssAfterColor(css2, "accent", preset.accent)
              IN  /\ cssVar' = css3
                  /\ picker' = [c \in ColorNames |-> SanitizeColor(preset[c])]
                  /\ colorText' = TextFromPickers(picker')
                  /\ sliderText' = RoundednessText(slider)
                  /\ lastStyle' = [op |-> "applyPreset", arg |-> presetName, link |-> 0, threw |-> FALSE]
         ELSE IF presetName \in ObjectPrototypeKeys
         THEN /\ cssVar' = CssAfterColor(cssVar, "primary", Undefined)
              /\ lastStyle' = [op |-> "applyPreset", arg |-> presetName, link |-> 0, threw |-> TRUE]
              /\ UNCHANGED <<picker, colorText, sliderText>>
         ELSE /\ lastStyle' = [op |-> "applyPreset", arg |-> presetName, link |-> 0, threw |-> FALSE]
              /\ UNCHANGED <<cssVar, picker, colorText, sliderText>>
    /\ UNCHANGED <<themeVars, slider, panelVars, themeSelector, formVars>>

\* JavaScript truthiness of colors.roundedness: <<>> is an absent field,
\* <<n>> the number n
RoundednessGiven(r) == r # <<>> /\ r[1] # 0

\* setColors(colors); an absent color is ""
SetColors(colors) ==
    LET css1 == IF colors.primary # ""
                  THEN CssAfterColor(cssVar, "primary", colors.primary) ELSE cssVar
        css2 == IF colors.secondary # ""
                  THEN CssAfterColor(css1, "secondary", colors.secondary) ELSE css1
        css3 == IF colors.accent # ""
                  THEN CssAfterColor(css2, "accent", colors.accent) ELSE css2
        css4 == IF RoundednessGiven(colors.roundedness)
                  THEN [css3 EXCEPT ![RadiusVar] =
                          RoundednessText(ToString(colors.roundedness[1]))]
                  ELSE css3
    IN  /\ cssVar' = css4
        /\ picker' = [c \in ColorNames |->
                        IF colors[c] # "" THEN SanitizeColor(colors[c]) ELSE picker[c]]
        /\ slider' = IF RoundednessGiven(colors.roundedness)
                       THEN ToString(colors.roundedness[1]) ELSE slider
        /\ colorText' = TextFromPickers(picker')
        /\ sliderText' = RoundednessText(slider')
        /\ lastStyle' = [op |-> "setColors", arg |-> colors, link |-> 0, threw |-> FALSE]
        /\ UNCHANGED <<themeVars, panelVars, themeSelector, formVars>>

(***************************************************************************)
(* WaitlistFormHandler: the tracked fields                                 *)
(***************************************************************************)
\* Object.values(this.fields), in order; the espressoMachine entry is the
\* checked radio input, kept apart as `radio`
FieldOrder == <<"name", "email", "zip", "interest", "comments">>
FieldNames == {FieldOrder[i] : i \in 1..Len(FieldOrder)}

\* field.type || field.tagName.toLowerCase()
FieldType(f) ==
    CASE f = "email"    -> "email"
      [] f = "name"     -> "text"
      [] f = "zip"      -> "text"
      [] f = "interest" -> "select-one"
      [] OTHER          -> "textarea"

\* field.hasAttribute('required')
Required(f) == f \in {"name", "email", "zip", "interest"}

MsgRequired == "This field is required"
MsgEmail    == "Please enter a valid email address"
MsgZip      == "Please enter a valid 5-digit zip code"
MsgName     == "Name must be at least 2 characters long"
MsgRadio    == "Please select whether you own an espresso machine"
MsgFix      == "Please fix the errors above and try again"
MsgSubmit   == "Sorry, there was an error submitting your information. Please try again in a moment."

\* validateField's verdict on field f holding raw value v: the error
\* message, "" when the field is valid
FieldMessage(f, v) ==
    LET value == Trim(v)
        m0 == IF Required(f) /\ value = "" THEN MsgRequired ELSE ""
        m1 == IF FieldType(f) = "email" /\ value # "" /\ ~IsValidEmail(value)
                THEN MsgEmail ELSE m0
        m2 == IF FieldType(f) = "text" /\ f = "zip" /\ value # "" /\ ~IsValidZipCode(value)
                THEN MsgZip ELSE m1
        m3 == IF FieldType(f) = "text" /\ f = "name" /\ value # "" /\ Len(value) < 2
                THEN MsgName ELSE m2
    IN  m3

ValidateField(f, v) == FieldMessage(f, v) = ""

(***************************************************************************)
(* WaitlistFormHandler: the submission and the fallback log                *)
(***************************************************************************)
\* The lookup tables are object literals, so a lookup also finds what every
\* object inherits from Object.prototype: a function or an object, never a
\* string, and truthy, so that `mapping[v] || v` yields it instead of v.

\* the inherited member found under key v (it is no string the form holds)
Inherited(v) == "[Object.prototype." \o v \o "]"

\* interestMapping[v] || v
InterestMapping(v) ==
    CASE v = "training"           -> "Training - Learn espresso & latte art"
      [] v = "events"             -> "Events - Barista for gatherings"
      [] v = "machine-help"       -> "Machine Help - Equipment maintenance"
      [] v = "all"                -> "All services interest me"
      [] v \in ObjectPrototypeKeys -> Inherited(v)
      [] OTHER                    -> v

\* espressoMachineMapping[v] || v
EspressoMachineMapping(v) ==
    CASE v = "yes"                -> "Yes, I have an espresso machine"
      [] v = "no"                 -> "No, but I'm interested in getting one"
      [] v = "considering"        -> "I'm considering purchasing one"
      [] v \in ObjectPrototypeKeys -> Inherited(v)
      [] OTHER                    -> v

\* collectFormData(); the timestamp is the ordinal of the submission
CollectFormData(ts) ==
    [name             |-> Trim(fields["name"]),
     email            |-> Trim(fields["email"]),
     zip              |-> Trim(fields["zip"]),
     interest         |-> InterestMapping(fields["interest"]),
     espresso_machine |-> EspressoMachineMapping(radio),
     comments         |-> Trim(fields["comments"]),
     timestamp        |-> ts,
     source           |-> "MyLocalBarista Landing Page"]

\* The stored item, by what localStorage.getItem and JSON.parse make of it:
\*   missing  - no item (getItem returns null)
\*   empty    - the empty string
\*   array    - the JSON text of the array `items`
\*   nonarray - JSON text of something that is no array ('{}', 'null', '5')
\*   garbage  - text that is not JSON
Stored(kind, items) == [kind |-> kind, items |-> items]

\* an entry an earlier page load left in the log
PriorEntry ==
    [name |-> "Bo", email |-> "b@c.io", zip |-> "54321",
     interest |-> InterestMapping("events"),
     espresso_machine |-> EspressoMachineMapping("no"),
     comments |-> "", timestamp |-> 0, source |-> "MyLocalBarista Landing Page"]

InitStorages ==
    {Stored("missing", <<>>), Stored("array", <<PriorEntry>>),
     Stored("nonarray", <<>>), Stored("garbage", <<>>)}

\* JSON.parse(localStorage.getItem(key) || '[]'): what it returns, or that it throws
ParseStored(st) ==
    CASE st.kind \in {"missing", "empty"} -> [threw |-> FALSE, isArray |-> TRUE,  items |-> <<>>]
      [] st.kind = "array"                -> [threw |-> FALSE, isArray |-> TRUE,  items |-> st.items]
      [] st.kind = "nonarray"             -> [threw |-> FALSE, isArray |-> FALSE, items |-> <<>>]
      [] OTHER                            -> [threw |-> TRUE,  isArray |-> FALSE, items |-> <<>>]

\* storeFormDataLocally(formData): the stored item afterwards. `works` is
\* whether localStorage itself does not throw (quota, disabled storage).
\* Every exception is caught inside, and then the item is left as it was.
StoreFormDataLocallyOverwrite(st, formData, works) ==
    IF ~works THEN st ELSE Stored("array", <<formData>>)
StoreFormDataLocally(st, formData, works) ==
    LET existingData == ParseStored(st)
    IN  IF ~works \/ existingData.threw \/ ~existingData.isArray
          THEN st
          ELSE Stored("array", Append(existingData.items, formData))

NoFlight == [busy |-> FALSE]

\* clearFieldError(field): removes the first .field-error of the field's
\* form group (each tracked field has a form group of its own)
ClearFieldError(errs) == IF errs = <<>> THEN <<>> ELSE Tail(errs)

\* showFieldError(field, message): clears, then appends the new message
ShowFieldErrorNoClear(errs, message) == Append(errs, message)
ShowFieldError(errs, message) == Append(ClearFieldError(errs), message)

\* the end of validateField(field): show the message or clear the marking
AfterValidateField(f, v, errs) ==
    IF ValidateField(f, v) THEN ClearFieldError(errs)
    ELSE ShowFieldError(errs, FieldMessage(f, v))

\* clearAllErrors(): removes every .field-error and the first .general-error
ClearGeneralError(ge) == IF ge = <<>> THEN <<>> ELSE Tail(ge)

\* showGeneralError(message): removes the first .general-error, then
\* inserts the new one at the top of the form
ShowGeneralErrorNoRemove(ge, message) == <<message>> \o ge
ShowGeneralError(ge, message) == <<message>> \o ClearGeneralError(ge)

\* handleSubmit's first test: if (this.isSubmitting) return
BusyGuardOff == FALSE
BusyGuard == isSubmitting

\* validateForm(): validateField on every tracked field, after clearAllErrors
FieldErrorsOf(vals) == [f \in FieldNames |-> AfterValidateField(f, vals[f], <<>>)]
NoFieldErrors == [f \in FieldNames |-> <<>>]

\* validateForm(): the aggregate message of a missing radio selection
GeneralErrorAfterValidate(ge) ==
    IF radio = "" THEN ShowGeneralError(ge, MsgRadio) ELSE ge

\* validateForm(): every tracked field valid and one radio checked
ValidateFormFieldsOnly == \A f \in FieldNames : ValidateField(f, fields[f])
ValidateForm == (\A f \in FieldNames : ValidateField(f, fields[f])) /\ radio # ""

\* showFieldError focuses the field; validateForm visits the fields in
\* order, so the last invalid one ends up focused
RECURSIVE FocusAfterValidate(_, _)
FocusAfterValidate(i, cur) ==
    IF i > Len(FieldOrder) THEN cur
    ELSE FocusAfterValidate(i + 1,
            IF ValidateField(FieldOrder[i], fields[FieldOrder[i]]) THEN cur ELSE FieldOrder[i])

\* no event handler runs between the fetch promise settling and the end of
\* handleSubmit: the continuation is one run of microtasks
EventLoopFree == pc # "stored"

\* handleSubmit while a submission is in flight: the busy guard returns
SubmitWhileBusy ==
    /\ EventLoopFree
    /\ BusyGuard
    /\ droppedBusy' = TRUE
    /\ UNCHANGED <<fields, radio, fieldError, generalError, isSubmitting, btnDisabled,
                   pc, flight, storage, acks, nAccepted, nAttempts, nStoreCalls,
                   nAdded, focus, custVars>>

\* handleSubmit stopped by validateForm
SubmitInvalid ==
    /\ EventLoopFree
    /\ ~BusyGuard
    /\ ~ValidateForm
    /\ fieldError' = FieldErrorsOf(fields)
    /\ generalError' = ShowGeneralError(
                          GeneralErrorAfterValidate(ClearGeneralError(generalError)), MsgFix)
    /\ focus' = FocusAfterValidate(1, focus)
    /\ UNCHANGED <<fields, radio, isSubmitting, btnDisabled, pc, flight, storage, acks,
                   nAccepted, nAttempts, nStoreCalls, nAdded, droppedBusy, custVars>>

\* handleSubmit up to the await of fetch
SubmitValid ==
    /\ EventLoopFree
    /\ ~BusyGuard
    /\ ValidateForm
    /\ nAccepted < MaxSubmits
    /\ nAccepted' = nAccepted + 1
    /\ fieldError' = NoFieldErrors
    /\ generalError' = GeneralErrorAfterValidate(ClearGeneralError(generalError))
    /\ isSubmitting' = TRUE
    /\ btnDisabled' = TRUE
    /\ flight' = [busy |-> TRUE, data |-> CollectFormData(nAccepted + 1), outcome |-> "pending",
                  works |-> TRUE]
    /\ nAttempts' = nAttempts + 1
    /\ acks' = Append(acks, "none")
    /\ pc' = "fetching"
    /\ UNCHANGED <<fields, radio, storage, nStoreCalls, nAdded, droppedBusy,
                   focus, custVars>>

\* submitToGoogleForms after the await: storeFormDataLocally(formData) runs
\* in the try body and in the catch block alike
StoredAfterFetchOkOnly(outcome, works) ==
    IF outcome = "ok" THEN StoreFormDataLocally(storage, flight.data, works) ELSE storage
StoredAfterFetch(outcome, works) == StoreFormDataLocally(storage, flight.data, works)

\* the fetch promise settles: submitToGoogleForms stores the data locally,
\* then returns true (outcome "ok") or rethrows (outcome "err")
FetchSettles(outcome, works) ==
    /\ pc = "fetching"
    /\ storage' = StoredAfterFetch(outcome, works)
    /\ nStoreCalls' = nStoreCalls + 1
    /\ nAdded' = IF storage' = storage THEN nAdded ELSE nAdded + 1
    /\ flight' = [flight EXCEPT !.outcome = outcome, !.works = works]
    /\ pc' = "stored"
    /\ UNCHANGED <<fields, radio, fieldError, generalError, isSubmitting, btnDisabled,
                   acks, nAccepted, nAttempts, droppedBusy, focus, custVars>>

\* handleSubmit's try body runs to its end exactly when submitToGoogleForms
\* did not rethrow; storeFormDataLocally never throws
SuccessPathNeedsStore == flight.outcome = "ok" /\ flight.works
SuccessPathAlways == TRUE
SuccessPath == flight.outcome = "ok"

\* resetForm(): this.form.reset() puts every control back to its initial,
\* empty value
ResetFormFieldsKept == fields
ResetFormFields == [f \in FieldNames |-> ""]

\* finally: this.setSubmittingState(false), on both paths
BusyAfterFinishOnErrorPath == ~SuccessPath
BusyAfterFinish == FALSE

\* the rest of handleSubmit: try body or catch, then finally
SubmitFinishes ==
    /\ pc = "stored"
    /\ IF SuccessPath
         THEN /\ acks' = [acks EXCEPT ![Len(acks)] = "success"]
              /\ fields' = ResetFormFields
              /\ radio' = ""
              /\ fieldError' = NoFieldErrors
              /\ generalError' = ClearGeneralError(generalError)
         ELSE /\ acks' = [acks EXCEPT ![Len(acks)] = "error"]
              /\ generalError' = ShowGeneralError(generalError, MsgSubmit)
              /\ UNCHANGED <<fields, radio, fieldError>>
    /\ isSubmitting' = BusyAfterFinish
    /\ btnDisabled' = BusyAfterFinish
    /\ flight' = NoFlight
    /\ pc' = "idle"
    /\ UNCHANGED <<storage, nAccepted, nAttempts, nStoreCalls, nAdded, droppedBusy,
                   focus, custVars>>

(***************************************************************************)
(* WaitlistFormHandler: the user at the form                               *)
(***************************************************************************)
\* values the user may give each control
FieldInputs(f) ==
    CASE f = "name"     -> {"", "Al"}
      [] f = "email"    -> {"not-an-email", "a@b.co"}
      [] f = "zip"      -> {"1234", "12345"}
      [] f = "interest" -> {"", "training"}
      [] OTHER          -> {""}

RadioInputs == {"yes"}

FocusTargets == FieldNames \cup {"none"}

\* the input event of a field: clearFieldError(field)
InputField(f, v) ==
    /\ EventLoopFree
    /\ v # fields[f]
    /\ fields' = [fields EXCEPT ![f] = v]
    /\ fieldError' = [fieldError EXCEPT ![f] = ClearFieldError(@)]
    /\ UNCHANGED <<radio, generalError, isSubmitting, btnDisabled, pc, flight, storage,
                   acks, nAccepted, nAttempts, nStoreCalls, nAdded, droppedBusy,
                   focus, custVars>>

\* the change event of the radio group
SelectRadio(r) ==
    /\ EventLoopFree
    /\ r # radio
    /\ radio' = r
    /\ UNCHANGED <<fields, fieldError, generalError, isSubmitting, btnDisabled, pc, flight,
                   storage, acks, nAccepted, nAttempts, nStoreCalls, nAdded, droppedBusy,
                   focus, custVars>>

\* The user moves focus to g. The field losing focus gets a blur event and
\* validateField runs on it; when it is invalid showFieldError calls
\* field.focus() inside the blur handler, and the browser then either
\* completes the move or leaves focus on the field.
MoveFocus(g, stays) ==
    /\ EventLoopFree
    /\ g # focus
    /\ IF focus \in FieldNames
         THEN /\ fieldError' = [fieldError EXCEPT
                                   ![focus] = AfterValidateField(focus, fields[focus], @)]
              /\ focus' = IF ~ValidateField(focus, fields[focus]) /\ stays THEN focus ELSE g
         ELSE /\ focus' = g
              /\ UNCHANGED fieldError
    /\ UNCHANGED <<fields, radio, generalError, isSubmitting, btnDisabled, pc, flight,
                   storage, acks, nAccepted, nAttempts, nStoreCalls, nAdded, droppedBusy,
                   custVars>>

(***************************************************************************)
(* Specifications                                                          *)
(***************************************************************************)
\* new CustomizationController() on a page showing the classic theme
InitCust ==
    /\ doc = <<1>>
    /\ links = <<[theme |-> "classic", status |-> "loaded", old |-> 0,
                  prevTheme |-> "classic", alone |-> TRUE]>>
    /\ currentTheme = "classic"
    /\ transitioning = FALSE
    /\ timers = 0
    /\ cssVar = [v \in StyleVarNames |-> ""]
    /\ slider = "8"
    /\ sliderText = "8px"
    /\ picker = [c \in ColorNames |-> SanitizeColor(hexToColor(StylesheetColor(c)))]
    /\ colorText = [c \in ColorNames |-> ToUpperCase(picker[c])]
    /\ nSwitch = 0
    /\ themeSelector = "classic"
    /\ isOpen = FALSE
    /\ panelClass = [panel |-> FALSE, main |-> FALSE, btn |-> FALSE]
    /\ focusTimers = <<>>
    /\ lastStyle = [op |-> "init", arg |-> "", link |-> 0, threw |-> FALSE]

\* new WaitlistFormHandler() on the empty form, the stored item being st
InitFormWith(st) ==
    /\ fields = [f \in FieldNames |-> ""]
    /\ radio = ""
    /\ fieldError = NoFieldErrors
    /\ generalError = <<>>
    /\ isSubmitting = FALSE
    /\ btnDisabled = FALSE
    /\ pc = "idle"
    /\ flight = NoFlight
    /\ storage = st
    /\ acks = <<>>
    /\ nAccepted = 0
    /\ nAttempts = 0
    /\ nStoreCalls = 0
    /\ nAdded = 0
    /\ droppedBusy = FALSE
    /\ focus = "none"

Init == InitCust /\ \E st \in InitStorages : InitFormWith(st)

Next ==
    \/ SubmitWhileBusy
    \/ SubmitInvalid
    \/ SubmitValid
    \/ \E outcome \in {"ok", "err"}, works \in BOOLEAN : FetchSettles(outcome, works)
    \/ SubmitFinishes
    \/ \E f \in FieldNames : \E v \in FieldInputs(f) : InputField(f, v)
    \/ \E r \in RadioInputs : SelectRadio(r)

\* The waitlist form's submission. The blur listeners write fieldError and
\* focus only, which nothing on the submission's path reads; they are
\* exercised in SpecField.
Spec == Init /\ [][Next]_vars

InitField == InitCust /\ InitFormWith(Stored("missing", <<>>))

NextField ==
    \/ \E f \in FieldNames : \E v \in FieldInputs(f) : focus = f /\ InputField(f, v)
    \/ \E r \in RadioInputs : focus = "none" /\ SelectRadio(r)
    \/ \E g \in FocusTargets, stays \in BOOLEAN : MoveFocus(g, stays)
    \/ SubmitInvalid

\* the waitlist form's fields: focus, blur-time validation, validateForm
SpecField == InitField /\ [][NextField]_vars

InitTheme == InitCust /\ InitFormWith(Stored("missing", <<>>))

NextTheme ==
    \/ \E t \in ThemeInputs : SwitchTheme(t)
    \/ \E l \in 1..Len(links) : LoadSuccess(l)
    \/ \E l \in 1..Len(links) : LoadError(l)
    \/ \E l \in 1..Len(links) : LoadAbandoned(l)
    \/ TransitionTimer
    \/ \E value \in RoundednessInputs : UpdateRoundedness(value)

\* The continuation of handleSubmit after the await is a run of microtasks:
\* once the fetch promise has settled it runs to the end of the handler.
SpecLive == Init /\ [][Next]_vars /\ WF_vars(SubmitFinishes)

\* values the select and the checked radio may hold when collectFormData
\* reads them: the listed options and values outside the tables
InterestValues == {"", "training", "events", "machine-help", "all", "barista", "constructor"}
EspressoMachineValues == {"", "yes", "no", "considering", "maybe", "toString"}

InitCollect == InitCust /\ InitFormWith(Stored("missing", <<>>))

\* the user fills the select and the radio group
ChooseInterest(v) ==
    /\ pc = "idle"
    /\ fields' = [fields EXCEPT !["interest"] = v]
    /\ fieldError' = [fieldError EXCEPT !["interest"] = ClearFieldError(@)]
    /\ UNCHANGED <<radio, generalError, isSubmitting, btnDisabled, pc, flight, storage,
                   acks, nAccepted, nAttempts, nStoreCalls, nAdded, droppedBusy,
                   focus, custVars>>

ChooseEspressoMachine(r) ==
    /\ pc = "idle"
    /\ radio' = r
    /\ UNCHANGED <<fields, fieldError, generalError, isSubmitting, btnDisabled, pc, flight,
                   storage, acks, nAccepted, nAttempts, nStoreCalls, nAdded, droppedBusy,
                   focus, custVars>>

\* const formData = this.collectFormData()
CollectData ==
    /\ pc = "idle"
    /\ flight' = [busy |-> TRUE, data |-> CollectFormData(1), outcome |-> "pending",
                  works |-> TRUE]
    /\ pc' = "collected"
    /\ UNCHANGED <<fields, radio, fieldError, generalError, isSubmitting, btnDisabled,
                   storage, acks, nAccepted, nAttempts, nStoreCalls, nAdded, droppedBusy,
                   focus, custVars>>

NextCollect ==
    \/ \E f \in {"name", "email", "zip"} : \E v \in FieldInputs(f) : pc = "idle" /\ InputField(f, v)
    \/ \E v \in InterestValues : ChooseInterest(v)
    \/ \E r \in EspressoMachineValues : ChooseEspressoMachine(r)
    \/ CollectData

\* collectFormData as a function of the form's controls
SpecCollect == InitCollect /\ [][NextCollect]_vars

NextOutcome ==
    \/ SubmitWhileBusy
    \/ SubmitInvalid
    \/ SubmitValid
    \/ \E outcome \in {"ok", "err"} : FetchSettles(outcome, TRUE)
    \/ SubmitFinishes
    \/ \E f \in FieldNames : \E v \in FieldInputs(f) : InputField(f, v)
    \/ \E r \in RadioInputs : SelectRadio(r)
    \/ \E g \in FocusTargets, stays \in BOOLEAN : MoveFocus(g, stays)

\* The submission together with the blur-time validation that may run while
\* it is in flight, from the page without a stored log and with local
\* storage working (Spec has the stored logs and the storage failures).
SpecOutcome == InitField /\ [][NextOutcome]_vars

\* values a control may hold when validateField reads it
ValidateInputs(f) ==
    CASE f = "name"     -> {"", "  ", "A", " A ", "Al"}
      [] f = "email"    -> {"", " ", "a@b", "a@b.co", "not-an-email", " a@b.co ",
                            "a@b.", "a@.co", "@b.co", "a@@b.co", "a b@c.de", "a.b@c.d.e"}
      [] f = "zip"      -> {"", "1234", "12345", "1234a", "123456", " 12345 ", "12 45"}
      [] f = "interest" -> {"", "training"}
      [] OTHER          -> {"", " ", "hi"}

InitValidate ==
    /\ InitCust
    /\ InitFormWith(Stored("missing", <<>>))

\* the user types v into field f
TypeInto(f, v) ==
    /\ fields[f] = ""
    /\ InputField(f, v)

\* the blur event of field f: validateField(field)
BlurValidate(f) ==
    /\ fieldError' = [fieldError EXCEPT ![f] = AfterValidateField(f, fields[f], @)]
    /\ focus' = IF ValidateField(f, fields[f]) THEN focus ELSE f
    /\ UNCHANGED <<fields, radio, generalError, isSubmitting, btnDisabled, pc, flight,
                   storage, acks, nAccepted, nAttempts, nStoreCalls, nAdded, droppedBusy,
                   custVars>>

NextValidate ==
    \/ \E f \in FieldNames : \E v \in ValidateInputs(f) : TypeInto(f, v)
    \/ \E f \in FieldNames : BlurValidate(f)

\* validateField as a function of one control's value
SpecValidate == InitValidate /\ [][NextValidate]_vars

NextPanel ==
    \/ OpenPanel
    \/ ClosePanel
    \/ \E moves \in BOOLEAN : FocusTimerFires(moves)
    \/ \E g \in PanelFocusTargets : UserFocus(g)

\* opening and closing the customization panel
SpecPanel == InitTheme /\ [][NextPanel]_vars

\* values a color picker's input event may carry
PickerInputs == {"#ff0000", "#3b82f6"}

\* names applyPreset may be given: the buttons' and names outside the table
PresetInputs == PresetNames \cup {"not-a-real-preset", "constructor"}

\* objects setColors may be given
SetColorsInputs ==
    [primary : {"", "#FF0000"}, secondary : {"", "#10b981"}, accent : {""},
     roundedness : {<<>>, <<0>>, <<8>>}]

NextStyle ==
    \/ \E c \in ColorNames, v \in PickerInputs : PickColor(c, v)
    \/ \E value \in RoundednessInputs : UpdateRoundedness(value)
    \/ \E presetName \in PresetInputs : ApplyPreset(presetName)
    \/ \E colors \in SetColorsInputs : SetColors(colors)

\* colors and presets of the customization panel
SpecStyle == InitTheme /\ [][NextStyle]_vars

\* colors a setter may be called with: with and without '#'
SetterInputs == {"#3B82F6", "ff0000", "10b981"}

NextSetter ==
    \/ \E c \in ColorNames, color \in SetterInputs : UpdateColorCall(c, color)
    \/ \E c \in ColorNames, v \in PickerInputs : PickColor(c, v)

\* the single-color setters of the customization panel
SpecSetter == InitTheme /\ [][NextSetter]_vars

\* objects setColors may be given, over the whole range of the slider
SetRoundednessInputs ==
    [primary : {"", "#FF0000"}, secondary : {""}, accent : {""},
     roundedness : {<<>>} \cup {<<n>> : n \in 0..MaxRoundedness}]

NextRadius ==
    \/ \E n \in 0..MaxRoundedness : UpdateRoundedness(ToString(n))
    \/ \E colors \in SetRoundednessInputs : SetColors(colors)

\* roundedness of the customization panel
SpecRadius == InitTheme /\ [][NextRadius]_vars

NextSelect ==
    \/ \E t \in Themes : SelectTheme(t)
    \/ \E l \in 1..Len(links) : LoadSuccess(l)
    \/ \E l \in 1..Len(links) : LoadError(l)
    \/ \E l \in 1..Len(links) : LoadAbandoned(l)
    \/ TransitionTimer

\* the user picking themes in the theme selector
SpecSelect == InitTheme /\ [][NextSelect]_vars

\* the customization panel
SpecTheme == InitTheme /\ [][NextTheme]_vars

(***************************************************************************)
(* Theme switching: properties (checked under SpecTheme)                   *)
(***************************************************************************)
LoadedInDoc(l) == InDoc(l) /\ links[l].status = "loaded"

\* the stylesheet whose rules win the cascade: the last one in document order
VisibleTheme == links[doc[Len(doc)]].theme

\* C2: in every reachable state some fully loaded theme stylesheet is in the
\* page, whatever the interleaving of switchTheme calls with load and error
\* completions.
C2_AlwaysALoadedSheet == \E l \in 1..Len(links) : LoadedInDoc(l)

\* two switches overlapped (they captured the same current link), one ended
\* in a load and the other in an error
C2_Witness ==
    \E a, b \in 2..Len(links) :
        /\ a # b
        /\ links[a].old = links[b].old
        /\ links[a].status = "loaded"
        /\ links[b].status = "failed"

\* C3 (as claimed): whenever no load is pending exactly one theme stylesheet
\* is in the page, and it is the one currentTheme names.
C3_OneSheetWhenIdle ==
    NoPendingLoad => Len(doc) = 1 /\ links[doc[1]].theme = currentTheme

\* C4 (as claimed): for a switch issued with no other switch in flight, the
\* old stylesheet stays and currentTheme keeps its value until the load
\* completes; once it has succeeded the old stylesheet is gone, currentTheme
\* is the new theme and exactly one theme stylesheet is in the page.
C4_CleanSwitch ==
    \A l \in 2..Len(links) :
        links[l].alone =>
            /\ links[l].status = "loading" =>
                  InDoc(links[l].old) /\ currentTheme = links[l].prevTheme
            /\ (lastStyle.op = "onload" /\ lastStyle.link = l) =>
                  /\ ~InDoc(links[l].old)
                  /\ currentTheme = links[l].theme
                  /\ Len(doc) = 1

\* C5 (as claimed): two overlapping switches whose loads both succeed leave
\* currentTheme at the theme that finished last, and that theme's stylesheet
\* is the last one in document order.
C5_LastFinisherVisible ==
    ( /\ Len(links) = 3
      /\ links[3].old = links[2].old
      /\ links[2].status = "loaded"
      /\ links[3].status = "loaded"
      /\ lastStyle.op = "onload" )
    => /\ currentTheme = links[lastStyle.link].theme
       /\ VisibleTheme = currentTheme

\* C6 (as claimed): a failed load removes the attempted stylesheet, leaves
\* currentTheme at the value it had before the switchTheme call and the
\* stylesheet that was current at the call in the page, and changes no other
\* style state.
C6_FailureRestoresCallState ==
    [][ lastStyle'.op = "onerror" /\ lastStyle' # lastStyle =>
          LET l == lastStyle'.link
          IN  /\ ~InSeq(doc', l)
              /\ currentTheme' = links[l].prevTheme
              /\ InSeq(doc', links[l].old)
              /\ UNCHANGED styleVars ]_vars

\* C6 (amended): a failed load removes the attempted stylesheet and no other,
\* leaves currentTheme at the value it had just before the failure, and
\* changes no other style state; when no other switch was in flight since the
\* call, that value is the one before the call and the stylesheet that was
\* current at the call is still in the page.
C6_FailureDiscardsAttempt ==
    [][ lastStyle'.op = "onerror" /\ lastStyle' # lastStyle =>
          LET l == lastStyle'.link
          IN  /\ ~InSeq(doc', l)
              /\ \A k \in 1..Len(links) : k # l => (InSeq(doc', k) <=> InDoc(k))
              /\ currentTheme' = currentTheme
              /\ UNCHANGED styleVars
              /\ links[l].alone =>
                    currentTheme' = links[l].prevTheme /\ InSeq(doc', links[l].old) ]_vars

\* a load failed after the roundedness had been set and after another
\* switch's load had changed the theme
C6_Witness ==
    /\ lastStyle.op = "onerror"
    /\ ~InDoc(lastStyle.link)
    /\ currentTheme # links[lastStyle.link].prevTheme
    /\ cssVar[RadiusVar] # ""

\* C7: switchTheme(t) with t the current theme creates no stylesheet element,
\* starts no load and leaves currentTheme and the stylesheets in the page as
\* they were.
C7_SameThemeIsNoop ==
    [][ ( /\ nSwitch' = nSwitch + 1
          /\ lastStyle'.op = "switchTheme"
          /\ lastStyle'.arg = currentTheme )
        => /\ UNCHANGED <<doc, links, currentTheme, transitioning, timers, styleVars>>
           /\ lastStyle'.link = 0 ]_vars

\* the current theme was selected again after a switch had changed it
C7_Witness ==
    /\ lastStyle.op = "switchTheme"
    /\ lastStyle.arg = currentTheme
    /\ lastStyle.link = 0
    /\ currentTheme # "classic"

(***************************************************************************)
(* Submission: properties (checked under Spec)                             *)
(***************************************************************************)
\* entries of the stored log that carry submission k's timestamp
CountInLog(k) ==
    Cardinality({i \in 1..Len(storage.items) : storage.items[i].timestamp = k})

\* the form as the user sees it has something validateForm objects to
FormHasProblem ==
    \/ radio = ""
    \/ \E f \in FieldNames : FieldMessage(f, fields[f]) # ""

\* a step taken while a submission is busy, other than that submission's own
\* completion, starts no fetch and leaves the stored log alone
BusyStepsAreInert ==
    [][ isSubmitting /\ pc' = pc => nAttempts' = nAttempts /\ storage' = storage ]_vars

\* C1 (as claimed): a submit event during a busy submission starts no
\* transmission and adds no log entry, and the number of transmission
\* attempts and (once nothing is in flight) of log entries added equals the
\* number of submit events accepted while not busy and passing validation.
C1_SingleFlightCounts ==
    /\ BusyStepsAreInert
    /\ [](nAttempts = nAccepted /\ (~isSubmitting => nAdded = nAccepted))

\* C1 (amended): a submit event during a busy submission starts no
\* transmission and adds no log entry; the number of transmission attempts
\* equals the number of accepted submit events; each accepted submission
\* calls the fallback append exactly once, when its fetch settles; and the
\* number of log entries added never exceeds the number of those calls.
C1_SingleFlightAttempts ==
    /\ BusyStepsAreInert
    /\ [](/\ nAttempts = nAccepted
          /\ nStoreCalls = (IF pc = "fetching" THEN nAccepted - 1 ELSE nAccepted)
          /\ nAdded <= nStoreCalls
          /\ isSubmitting <=> pc # "idle")

\* two submissions ran to the end and a submit event was dropped meanwhile
C1_Witness ==
    /\ droppedBusy
    /\ pc = "idle"
    /\ nAccepted = 2
    /\ nAdded = 2

\* C8: from a form that fails validateForm (an empty required field, a bad
\* value, no espresso-machine option) and is not busy, a submit event starts
\* no fetch, leaves the stored log alone, does not enter the busy state and
\* shows no success acknowledgment.
C8_InvalidSubmitStops ==
    [][ (~isSubmitting /\ FormHasProblem) =>
          /\ nAttempts' = nAttempts
          /\ storage' = storage
          /\ isSubmitting' = FALSE
          /\ btnDisabled' = btnDisabled
          /\ acks' = acks
          /\ pc' = "idle" ]_vars

\* a submit event was stopped with the name empty and no option selected
C8_Witness ==
    /\ generalError = <<MsgFix>>
    /\ fieldError["name"] = <<MsgRequired>>
    /\ radio = ""
    /\ nAttempts = 0
    /\ ~isSubmitting

\* the fallback append of submission k has run
AppendDone(k) == k < nAccepted \/ (k = nAccepted /\ pc # "fetching")

\* C9 (as claimed): every validated submission whose fetch has settled is in
\* the stored log exactly once, on the normal and on the exception path, and
\* it is there before its acknowledgment or failure message shows.
C9_AppendedOnceBeforeAck ==
    \A k \in 1..nAccepted :
        /\ AppendDone(k) => CountInLog(k) = 1
        /\ acks[k] # "none" => CountInLog(k) = 1

\* C9 (amended): every validated submission whose fetch has settled has had
\* its one fallback append call, on the normal and on the exception path,
\* before its acknowledgment or failure message shows; the stored log holds
\* it at most once, and exactly once after an append that found local storage
\* working and the stored item missing, empty or an array.
C9_AppendCalledOnceBeforeAck ==
    /\ \A k \in 1..nAccepted :
          /\ CountInLog(k) <= 1
          /\ acks[k] # "none" => AppendDone(k)
          /\ ~AppendDone(k) => CountInLog(k) = 0
    /\ nStoreCalls = Cardinality({k \in 1..nAccepted : AppendDone(k)})
    /\ pc = "stored" =>
          /\ acks[nAccepted] = "none"
          /\ (flight.works /\ storage.kind \notin {"garbage", "nonarray"})
                => CountInLog(nAccepted) = 1

\* a fetch that raised was followed by the append, and the failure message
\* is not shown yet
C9_Witness ==
    /\ pc = "stored"
    /\ flight.outcome = "err"
    /\ CountInLog(nAccepted) = 1
    /\ acks[nAccepted] = "none"

\* C10 (as claimed): an append that finds the stored log missing, unparseable
\* or not an array, with local storage itself working, leaves the one-element
\* log holding the new submission.
C10_CorruptLogTreatedAsEmpty ==
    [][ ( /\ pc = "fetching"
          /\ pc' = "stored"
          /\ flight'.works
          /\ storage.kind \in {"missing", "garbage", "nonarray"} )
        => storage' = Stored("array", <<flight.data>>) ]_vars

\* the well-formed stored log: an array, or no item at all
WellFormedLog(st) == st.kind \in {"missing", "empty", "array"}

IsPrefix(s, t) == Len(s) <= Len(t) /\ SubSeq(t, 1, Len(s)) = s

\* C11: the fallback log is append-only. No step drops or reorders an entry
\* of the stored log (the log before is a prefix of the log after), and an
\* append to a well-formed log that local storage accepts leaves the log as
\* it was with the new submission added at the end.
C11_AppendOnly ==
    [][ /\ IsPrefix(storage.items, storage'.items)
        /\ (pc = "fetching" /\ pc' = "stored") =>
              \/ storage' = storage
              \/ storage' = Stored("array", Append(storage.items, flight.data))
        /\ (pc = "fetching" /\ pc' = "stored" /\ flight'.works /\ WellFormedLog(storage)) =>
              storage' = Stored("array", Append(storage.items, flight.data)) ]_vars

\* two submissions were appended after the entry an earlier visit had left
C11_Witness ==
    /\ Len(storage.items) = 3
    /\ storage.items[1] = PriorEntry
    /\ storage.items[2].timestamp = 1
    /\ storage.items[3].timestamp = 2

\* the fallback append of the submission in flight stored nothing: local
\* storage threw, or the stored item did not parse to an array
StoreFailed == ~flight.works \/ ~WellFormedLog(storage)

\* C12: a failure of the fallback append is swallowed. The append itself
\* shows the user nothing, and the submission ends as its transmission
\* decided: after a normal return the success acknowledgment is shown and
\* the form is reset, after an exception the failure message is shown.
C12_StoreFailureSwallowed ==
    [][ /\ (pc = "fetching" /\ pc' = "stored" /\ ~flight'.works) =>
              /\ UNCHANGED <<fieldError, generalError, acks, fields, radio, isSubmitting>>
              /\ storage' = storage
        /\ (pc = "stored" /\ pc' = "idle" /\ StoreFailed) =>
              /\ flight.outcome = "ok" =>
                    /\ acks' = [acks EXCEPT ![Len(acks)] = "success"]
                    /\ fields' = [f \in FieldNames |-> ""]
                    /\ radio' = ""
                    /\ generalError' = <<>>
              /\ flight.outcome = "err" =>
                    /\ acks' = [acks EXCEPT ![Len(acks)] = "error"]
                    /\ generalError' = <<MsgSubmit>> ]_vars

\* local storage threw in two submissions; the first was acknowledged and
\* the second, whose transmission raised, showed the failure message
C12_Witness ==
    /\ pc = "idle"
    /\ acks = <<"success", "error">>
    /\ storage.kind = "missing"
    /\ nStoreCalls = 2
    /\ generalError = <<MsgSubmit>>

\* C13: a submission that entered the busy state leaves it once its fetch has
\* returned or raised: on both paths the handler runs to its end, and there
\* isSubmitting is false and the submit button enabled, so the busy guard
\* lets the next submit event through.
C13_BusyStateIsLeft ==
    /\ [][ pc = "stored" => (pc' = "idle" /\ ~isSubmitting' /\ ~btnDisabled') ]_vars
    /\ [](pc = "idle" => (~isSubmitting /\ ~btnDisabled /\ ~BusyGuard))
    /\ ((pc = "stored") ~> (pc = "idle" /\ ~isSubmitting /\ ~btnDisabled))

\* after a submission that failed, a second one was accepted and is busy
C13_Witness ==
    /\ nAccepted = 2
    /\ acks[1] = "error"
    /\ isSubmitting
    /\ pc = "fetching"

(***************************************************************************)
(* The form's fields: properties (checked under SpecField)                 *)
(***************************************************************************)
\* C14 (as claimed): when blur-time validation marks the field that is
\* losing focus invalid (no submit event is involved: no aggregate message
\* is shown), focus still leaves that field, so the user can go on to
\* correct any other field.
C14_BlurLetsFocusMove ==
    [][ ( /\ focus \in FieldNames
          /\ fields' = fields
          /\ generalError' = <<>>
          /\ fieldError[focus] = <<>>
          /\ fieldError'[focus] # <<>> )
        => focus' # focus ]_vars

(***************************************************************************)
(* collectFormData: properties (checked under SpecCollect)                 *)
(***************************************************************************)
\* the option texts the Google Form accepts
InterestOptionTexts ==
    {"Training - Learn espresso & latte art", "Events - Barista for gatherings",
     "Machine Help - Equipment maintenance", "All services interest me"}
EspressoMachineOptionTexts ==
    {"Yes, I have an espresso machine", "No, but I'm interested in getting one",
     "I'm considering purchasing one"}

\* C15 (as claimed): the collected submission's interest is the fixed
\* sentence of the select's value for the four listed values (training gives
\* 'Training - Learn espresso & latte art'), its espresso_machine the fixed
\* sentence of the checked radio for the three listed values (yes gives
\* 'Yes, I have an espresso machine'), and a value outside the table passes
\* through unchanged.
C15_MappingIsTotal ==
    pc = "collected" =>
        LET d == flight.data
        IN  /\ fields["interest"] \in {"training", "events", "machine-help", "all"}
                  => d.interest \in InterestOptionTexts
            /\ fields["interest"] = "training"
                  => d.interest = "Training - Learn espresso & latte art"
            /\ radio \in {"yes", "no", "considering"}
                  => d.espresso_machine \in EspressoMachineOptionTexts
            /\ radio = "yes" => d.espresso_machine = "Yes, I have an espresso machine"
            /\ fields["interest"] \notin {"training", "events", "machine-help", "all"}
                  => d.interest = fields["interest"]
            /\ radio \notin {"yes", "no", "considering"}
                  => d.espresso_machine = radio

(***************************************************************************)
(* How a submission ends: properties (checked under SpecOutcome)           *)
(***************************************************************************)
\* C16: a submission whose fetch raised nothing ends with the success
\* acknowledgment shown, every form field and the radio group reset to
\* empty, and no field error and no aggregate error displayed, whatever was
\* typed or marked invalid while it was in flight.
C16_SuccessPathResets ==
    [][ (pc = "stored" /\ pc' = "idle" /\ flight.outcome = "ok") =>
          /\ acks' = [acks EXCEPT ![Len(acks)] = "success"]
          /\ \A f \in FieldNames : fields'[f] = "" /\ fieldError'[f] = <<>>
          /\ radio' = ""
          /\ generalError' = <<>> ]_vars

\* a submission succeeded after an earlier one had failed and left its
\* failure message on the form
C16_Witness ==
    /\ pc = "idle"
    /\ acks = <<"error", "success">>
    /\ \A f \in FieldNames : fields[f] = "" /\ fieldError[f] = <<>>
    /\ radio = ""
    /\ generalError = <<>>

\* C17: a submission whose fetch raised ends with the generic retry message
\* shown and without the success acknowledgment, and the form is not reset;
\* no submission ends with both the acknowledgment and the failure message.
C17_FailurePathShowsError ==
    [][ (pc = "stored" /\ pc' = "idle") =>
          /\ flight.outcome = "err" =>
                /\ generalError' = <<MsgSubmit>>
                /\ acks' = [acks EXCEPT ![Len(acks)] = "error"]
                /\ fields' = fields /\ radio' = radio
          /\ ~(acks'[Len(acks')] = "success" /\ InSeq(generalError', MsgSubmit))
          /\ acks'[Len(acks')] \in {"success", "error"}
          /\ \A k \in 1..(Len(acks) - 1) : acks'[k] = acks[k] ]_vars

\* a submission failed after an earlier one had been acknowledged
C17_Witness ==
    /\ pc = "idle"
    /\ acks = <<"success", "error">>
    /\ generalError = <<MsgSubmit>>
    /\ fields["name"] # ""

(***************************************************************************)
(* validateForm and validateField: properties                              *)
(***************************************************************************)
\* what validateField says of field f as it stands
FieldIsValid(f) == FieldMessage(f, fields[f]) = ""

\* a submit event stopped by validateForm: the form stays idle and its
\* controls unchanged, while the aggregate message or the marking of a field
\* that is not losing focus changes
InvalidSubmitStep ==
    /\ pc = "idle" /\ pc' = "idle"
    /\ fields' = fields /\ radio' = radio
    /\ \/ generalError' # generalError
       \/ \E f \in FieldNames : f # focus /\ fieldError'[f] # fieldError[f]

\* C18 (checked under SpecOutcome): a submit event is accepted only when
\* validateField holds of every tracked field and a radio option is
\* selected, and stopped only when one of these fails;
\* when it is stopped every invalid field carries its own message, every
\* valid field none, and exactly one aggregate message is displayed. At most
\* one aggregate message is displayed in any state.
C18_ValidateFormIsConjunction ==
    /\ [][ (pc = "idle" /\ pc' = "fetching") =>
              (\A f \in FieldNames : FieldIsValid(f)) /\ radio # "" ]_vars
    /\ [][ InvalidSubmitStep =>
              /\ (\E f \in FieldNames : ~FieldIsValid(f)) \/ radio = ""
              /\ \A f \in FieldNames :
                    fieldError'[f] = IF FieldIsValid(f) THEN <<>>
                                     ELSE <<FieldMessage(f, fields[f])>>
              /\ generalError' = <<MsgFix>> ]_vars
    /\ [](Len(generalError) <= 1)

\* a submit event was stopped with two fields invalid and no radio option
\* selected: both fields are marked and one aggregate message shows
C18_Witness ==
    /\ fieldError["name"] = <<MsgRequired>>
    /\ fieldError["email"] = <<MsgEmail>>
    /\ fieldError["zip"] = <<>>
    /\ fields["zip"] = "12345"
    /\ radio = ""
    /\ generalError = <<MsgFix>>

\* C19 (checked under SpecField): validating a field again with its value
\* unchanged leaves the marking one validation leaves; a field never
\* carries more than one inline message, the message it carries is the one
\* its value earns, and validating a valid field leaves it unmarked.
C19_ValidateFieldIdempotent ==
    \A f \in FieldNames :
        LET once  == AfterValidateField(f, fields[f], fieldError[f])
            twice == AfterValidateField(f, fields[f], once)
        IN  /\ twice = once
            /\ Len(fieldError[f]) <= 1
            /\ Len(once) <= 1
            /\ fieldError[f] # <<>> => fieldError[f] = <<FieldMessage(f, fields[f])>>
            /\ FieldIsValid(f) => once = <<>>
            /\ ~FieldIsValid(f) => once = <<FieldMessage(f, fields[f])>>

\* blur-time validation has marked one field, and focus sits in another
\* field that is invalid and still unmarked
C19_Witness ==
    /\ fieldError["email"] = <<MsgEmail>>
    /\ focus = "zip"
    /\ ~FieldIsValid("zip")
    /\ fieldError["zip"] = <<>>
    /\ generalError = <<>>

\* every character of s is whitespace
AllWhitespace(s) == \A i \in 1..Len(s) : CharAt(s, i) \in Whitespace

\* C20 (checked under SpecValidate): validateField finds a required field
\* invalid with 'This field is required' exactly when its value is empty
\* or all whitespace, and shows that message then; a field that is not
\* required is valid with such a value.
C20_RequiredMeansNonEmpty ==
    \A f \in FieldNames :
        /\ Required(f) =>
              (FieldMessage(f, fields[f]) = MsgRequired <=> AllWhitespace(fields[f]))
        /\ (Required(f) /\ AllWhitespace(fields[f])) =>
              AfterValidateField(f, fields[f], fieldError[f]) = <<MsgRequired>>
        /\ (~Required(f) /\ AllWhitespace(fields[f])) =>
              /\ ValidateField(f, fields[f])
              /\ AfterValidateField(f, fields[f], fieldError[f]) = <<>>
        /\ InSeq(fieldError[f], MsgRequired) => (Required(f) /\ AllWhitespace(fields[f]))

\* the name holding only blanks has been marked required, while the
\* comments holding a blank and the filled fields are unmarked
C20_Witness ==
    /\ fields["name"] = "  "
    /\ fieldError["name"] = <<MsgRequired>>
    /\ fields["comments"] = " "
    /\ fieldError["comments"] = <<>>
    /\ fields["email"] = "a@b.co"
    /\ focus = "name"

\* the number of decimal digits among the characters of s
DigitCount(s) == Cardinality({i \in 1..Len(s) : CharAt(s, i) \in Digits})

\* C21 (checked under SpecValidate): validateField finds a zip field whose
\* value is not blank valid exactly when the trimmed value is 5 characters,
\* all decimal digits, and shows the zip message otherwise: '1234', a value
\* of 6 digits and a value with a non-digit are invalid, '12345' is valid.
C21_ZipIsFiveDigits ==
    LET v == fields["zip"]
        t == Trim(v)
        shown == AfterValidateField("zip", v, fieldError["zip"])
    IN  /\ ~AllWhitespace(v) =>
              /\ ValidateField("zip", v) <=> (Len(t) = 5 /\ DigitCount(t) = 5)
              /\ shown = IF Len(t) = 5 /\ DigitCount(t) = 5 THEN <<>> ELSE <<MsgZip>>
        /\ v = "1234" => ~ValidateField("zip", v)
        /\ v = "12345" => ValidateField("zip", v)
        /\ v \in {"123456", "1234a", "12 45"} => shown = <<MsgZip>>
        /\ InSeq(fieldError["zip"], MsgZip) => ~(Len(t) = 5 /\ DigitCount(t) = 5)

\* a zip of six digits has been marked invalid
C21_Witness ==
    /\ fields["zip"] = "123456"
    /\ fieldError["zip"] = <<MsgZip>>
    /\ focus = "zip"

\* s is not empty and holds no whitespace and no '@'
EmailPart(s) ==
    /\ Len(s) > 0
    /\ \A i \in 1..Len(s) : CharAt(s, i) \notin (Whitespace \cup {"@"})

\* s reads local@domain.tld with the three parts as EmailPart wants them
LocalAtDomainDotTld(s) ==
    \E i \in 1..Len(s), j \in 1..Len(s) :
        /\ i < j
        /\ CharAt(s, i) = "@"
        /\ CharAt(s, j) = "."
        /\ EmailPart(SubSeq(s, 1, i - 1))
        /\ EmailPart(SubSeq(s, i + 1, j - 1))
        /\ EmailPart(SubSeq(s, j + 1, Len(s)))

\* text t occurs in s
Contains(s, t) == \E i \in 1..(Len(s) - Len(t) + 1) : SubSeq(s, i, i + Len(t) - 1) = t

\* C22 (checked under SpecValidate): validateField finds an email field
\* whose value is not blank valid exactly when the trimmed value reads
\* local@domain.tld, the three parts not empty and free of whitespace and
\* '@'; 'not-an-email' is invalid with a message that contains 'valid email'
\* and 'a@b.co' is valid.
C22_EmailIsLocalAtDomainTld ==
    LET v == fields["email"]
        shown == AfterValidateField("email", v, fieldError["email"])
    IN  /\ ~AllWhitespace(v) =>
              /\ ValidateField("email", v) <=> LocalAtDomainDotTld(Trim(v))
              /\ shown = IF LocalAtDomainDotTld(Trim(v)) THEN <<>> ELSE <<MsgEmail>>
        /\ v = "not-an-email" =>
              /\ ~ValidateField("email", v)
              /\ Len(shown) = 1 /\ Contains(shown[1], "valid email")
        /\ v = "a@b.co" => ValidateField("email", v) /\ shown = <<>>
        /\ InSeq(fieldError["email"], MsgEmail) => ~LocalAtDomainDotTld(Trim(v))

\* 'not-an-email' has been marked invalid
C22_Witness ==
    /\ fields["email"] = "not-an-email"
    /\ fieldError["email"] = <<MsgEmail>>
    /\ focus = "email"

(***************************************************************************)
(* The panel: properties (checked under SpecPanel)                         *)
(***************************************************************************)
\* C23 (as claimed): the panel starts closed, and openPanel() while it is
\* open and closePanel() while it is closed change neither isOpen, nor the
\* classes of the panel and the open button, nor where keyboard focus is or
\* will be put.
C23_RedundantCallIsNoop ==
    /\ [](lastStyle.op = "init" => ~isOpen)
    /\ [][ ( \/ lastStyle'.op = "openPanel" /\ isOpen
             \/ lastStyle'.op = "closePanel" /\ ~isOpen )
           => /\ isOpen' = isOpen
              /\ panelClass' = panelClass
              /\ focus' = focus
              /\ focusTimers' = focusTimers ]_vars

\* the element the panel's state wants focused
PanelFocusGoal == IF isOpen THEN "firstControl" ELSE "openBtn"

ColorVarsKept == \A c \in ColorNames : cssVar'[ColorVar(c)] = cssVar[ColorVar(c)]

\* C25: for every integer n in 0..30, updateRoundedness(n) sets the radius
\* property to "npx" and the displayed radius to exactly "npx", and leaves
\* the three color properties as they were (checked under SpecRadius).
C25_RoundednessReadsNpx ==
    [][ \A n \in 0..MaxRoundedness :
          (lastStyle'.op = "updateRoundedness" /\ lastStyle'.arg = ToString(n))
            => /\ cssVar'[RadiusVar] = ToString(n) \o "px"
               /\ sliderText' = ToString(n) \o "px"
               /\ ColorVarsKept ]_vars

\* updateRoundedness(30) after a color was set
C25_Witness ==
    /\ lastStyle.op = "updateRoundedness"
    /\ lastStyle.arg = "30"
    /\ sliderText = "30px"
    /\ cssVar[RadiusVar] = "30px"
    /\ cssVar[ColorVar("primary")] = "#FF0000"

\* the step is applyPreset(name) for a name of the table
PresetHitStep == lastStyle'.op = "applyPreset" /\ lastStyle'.arg \in PresetNames

\* roundedness and the theme are as they were
RadiusAndThemeKept ==
    /\ cssVar'[RadiusVar] = cssVar[RadiusVar]
    /\ slider' = slider
    /\ currentTheme' = currentTheme

\* C26 (as claimed): applyPreset(name) for a name of the table leaves the
\* three color properties, the three picker values and the three displayed
\* values equal to the preset's triple, and roundedness and the theme as
\* they were (checked under SpecStyle).
C26_PresetSetsAllToTriple ==
    [][ PresetHitStep =>
          /\ \A c \in ColorNames :
                /\ cssVar'[ColorVar(c)] = Presets(lastStyle'.arg)[c]
                /\ picker'[c] = Presets(lastStyle'.arg)[c]
                /\ colorText'[c] = Presets(lastStyle'.arg)[c]
          /\ RadiusAndThemeKept ]_vars

\* C26 (amended): the color properties and the displayed values equal the
\* triple as written in the table, the picker values equal it in lowercase,
\* the radius property, the slider and the theme are as they were and the
\* displayed radius reads the slider's value.
C26_PresetSetsAllToTripleLowercasePickers ==
    /\ Presets("coffee") = [primary |-> "#8B4513", secondary |-> "#D2691E", accent |-> "#F4E4C1"]
    /\ [][ PresetHitStep =>
             /\ \A c \in ColorNames :
                   /\ cssVar'[ColorVar(c)] = Presets(lastStyle'.arg)[c]
                   /\ picker'[c] = ToLowerCase(Presets(lastStyle'.arg)[c])
                   /\ colorText'[c] = Presets(lastStyle'.arg)[c]
             /\ RadiusAndThemeKept
             /\ sliderText' = slider \o "px" ]_vars

\* applyPreset('coffee') when the colors were others and the radius 0
C26_Witness ==
    /\ lastStyle.op = "applyPreset"
    /\ lastStyle.arg = "coffee"
    /\ cssVar[ColorVar("primary")] = "#8B4513"
    /\ picker["primary"] = "#8b4513"
    /\ colorText["accent"] = "#F4E4C1"
    /\ slider = "0"

\* C27 (as claimed): applyPreset(name) for a name that is no key of the
\* table raises no exception and leaves the color properties, the picker
\* values and the displayed values as they were (checked under SpecStyle).
C27_UnknownPresetIsSilent ==
    [][ (lastStyle'.op = "applyPreset" /\ lastStyle'.arg \notin PresetNames)
          => /\ ~lastStyle'.threw
             /\ ColorVarsKept
             /\ picker' = picker
             /\ colorText' = colorText
             /\ sliderText' = sliderText ]_vars

\* the step is setColors(colors)
SetColorsStep == lastStyle'.op = "setColors"

\* C30 (as claimed): setColors applies every field it is given and leaves
\* the others as they were; roundedness n in 0..30, 0 included, leaves the
\* radius property, the slider and the displayed radius reading n px
\* (checked under SpecRadius).
C30_SetColorsAppliesEveryField ==
    [][ SetColorsStep =>
          LET colors == lastStyle'.arg
          IN  /\ IF colors.roundedness # <<>>
                   THEN /\ cssVar'[RadiusVar] = ToString(colors.roundedness[1]) \o "px"
                        /\ slider' = ToString(colors.roundedness[1])
                        /\ sliderText' = ToString(colors.roundedness[1]) \o "px"
                   ELSE /\ cssVar'[RadiusVar] = cssVar[RadiusVar]
                        /\ slider' = slider
                        /\ sliderText' = sliderText
              /\ \A c \in ColorNames :
                    IF colors[c] # ""
                      THEN /\ cssVar'[ColorVar(c)] = colors[c]
                           /\ ToUpperCase(picker'[c]) = ToUpperCase(colors[c])
                           /\ colorText'[c] = ToUpperCase(colors[c])
                      ELSE /\ cssVar'[ColorVar(c)] = cssVar[ColorVar(c)]
                           /\ picker'[c] = picker[c]
                           /\ colorText'[c] = colorText[c] ]_vars

\* C28 (as claimed): a single-color setter writes its argument, prefixed
\* with '#' when it has none, to its own style property and shows that value
\* (in the display's uppercase); no other color's property or displayed
\* value changes (checked under SpecSetter).
C28_SetterNormalizesHash ==
    [][ \A c \in ColorNames :
          lastStyle'.op = SetterName(c) =>
            /\ cssVar'[ColorVar(c)] = hexToColor(lastStyle'.arg)
            /\ colorText'[c] = ToUpperCase(hexToColor(lastStyle'.arg))
            /\ \A d \in ColorNames \ {c} :
                  /\ cssVar'[ColorVar(d)] = cssVar[ColorVar(d)]
                  /\ colorText'[d] = colorText[d] ]_vars

(***************************************************************************)
(* The theme selector: properties (checked under SpecSelect)               *)
(***************************************************************************)
\* every stylesheet load that was started has run its onload
AllLoadsSucceeded == \A l \in 1..Len(links) : links[l].status = "loaded"

\* C29 (as claimed): once every started theme load has completed, all of
\* them with success, currentTheme is the theme the user picked last in the
\* theme selector.
C29_ThemeIsLastSelection == AllLoadsSucceeded => currentTheme = themeSelector

====
